---- MODULE Spec2Model ----
(***************************************************************************)
(* The books CRUD service of main.go: an in-memory map[string]Book guarded *)
(* by one sync.RWMutex, and the six fiber handlers that work on it.  Each  *)
(* worker (one goroutine per request) runs one handler at a time; a step   *)
(* of a worker is a lock operation, the map access made under the lock, or *)
(* the return.                                                             *)
(*                                                                         *)
(* Strings are TLA+ strings, except identifiers: the string of the n-th    *)
(* UUID drawn is the one-element sequence <<n>> and the empty string is    *)
(* the empty sequence.                                                     *)
(***************************************************************************)
EXTENDS Integers, Sequences, FiniteSets, TLC

\* ------------------------------------------------------------ bounds
\* Number of workers (goroutines serving requests at the same time).
NumProcs == 2
\* Number of requests served in a run.
MaxRequests == 3
\* Width of Go's int in the model (64 in the build): two's complement.
IntBits == 7
\* Largest store of the pagination specification.
MaxBooks == 3

Procs == 1..NumProcs

\* ------------------------------------------------------------ Book
UUID(n) == <<n>>
EmptyId == <<>>

Book(id, title, author, year) ==
    [id |-> id, title |-> title, author |-> author, year |-> year]
ZeroBook == Book(EmptyId, "", "", 0)

Seed1 == Book(UUID(1), "Clean Architecture", "Robert C. Martin", 2017)
Seed2 == Book(UUID(2), "The Go Programming Language", "Alan A. A. Donovan", 2015)

\* store[payload.ID] = payload
Put(s, id, b) == [k \in DOMAIN s \cup {id} |-> IF k = id THEN b ELSE s[k]]

\* seedData: the two seeds are put under their own ids.
seedData == Put(Put(<<>>, Seed1.id, Seed1), Seed2.id, Seed2)

\* JSON bodies a client sends: a Book with any of its fields left out (the
\* zero value), or a body BodyParser rejects.
Malformed == [syntax |-> "malformed"]
Bodies == [id : {EmptyId, UUID(1)}, title : {"", "X"}, author : {"", "Y"},
           year : {0, 9}] \cup {Malformed}
\* The bodies of the concurrent specification: nothing set, and everything set.
FewBodies == {Malformed, Book(EmptyId, "", "", 0), Book(UUID(1), "X", "Y", 9)}

\* c.BodyParser(&payload) returns an error
BodyParserFails(body) == body = Malformed

\* validateBookPayload: "" for nil, else the error's message.
validateTitleOnly(b) == IF b.title = "" THEN "title is required" ELSE ""
validateBookPayload(b) ==
    IF b.title = "" THEN "title is required"
    ELSE IF b.author = "" THEN "author is required"
    ELSE ""

\* ------------------------------------------------------------ machine int
MaxInt == 2^(IntBits - 1) - 1
MinInt == -(2^(IntBits - 1))
\* Two's complement wrap-around of Go's int arithmetic.
Wrap(x) == ((x - MinInt) % 2^IntBits) + MinInt

\* A query parameter: absent, a decimal numeral (of any size), or other text.
Absent == [absent |-> TRUE]
Num(n) == [num |-> n]
Text == [text |-> "abc"]
IsNum(q) == DOMAIN q = {"num"}

\* c.Query(key, default)
Query(q, default) == IF q = Absent THEN default ELSE q

\* strconv.Atoi with its error dropped: 0 on a syntax error, the nearest int
\* on a range error.
Atoi(q) ==
    IF ~IsNum(q) THEN 0
    ELSE IF q.num > MaxInt THEN MaxInt
    ELSE IF q.num < MinInt THEN MinInt
    ELSE q.num

\* Every numeral from one below the least int to one above the greatest.
Numerals == {Num(n) : n \in (MinInt - 1)..(MaxInt + 1)}
AllQueries == [page : Numerals \cup {Absent, Text}, limit : Numerals \cup {Absent, Text}]
\* The query of the concurrent specifications: the second page of one book.
FewQueries == [page : {Num(2)}, limit : {Num(1)}]

\* ------------------------------------------------------------ responses
StatusOK == 200
StatusCreated == 201
StatusNoContent == 204
StatusBadRequest == 400
StatusNotFound == 404
StatusInternalServerError == 500

NoResp == [status |-> 0]
Err(code, msg) == [status |-> code, error |-> msg]
Json(code, v) == [status |-> code, body |-> v]
NotFound == Err(StatusNotFound, "book not found")
BadBody == Err(StatusBadRequest, "invalid JSON body")
\* recover.New() turns a panic into an error that is no *fiber.Error, which the
\* ErrorHandler answers with 500.
Panic == Err(StatusInternalServerError, "internal server error")

VARIABLES
    store,      \* map[string]Book
    mu,         \* storeMu: [w: the worker holding it exclusively (NoProc: none),
                \*           r: the workers holding it shared]
    pc,         \* each worker's position in its handler
    req,        \* each worker's request: op, path id, body, page, limit
    local,      \* each worker's local variables: the Book payload / existing,
                \* or getAllBooks's page, limit and books
    resp,       \* each worker's result
    nextId,     \* number of the next UUID uuid.New() returns
    served,     \* requests accepted so far
    deleted,    \* history: ids whose Delete has returned 204
    lateGet     \* history: workers whose GetByID was accepted after a Delete of
                \* its id had returned 204

vars == <<store, mu, pc, req, local, resp, nextId, served, deleted, lateGet>>

\* ------------------------------------------------------------ storeMu
NoProc == 0
RLockIgnoresWriter == TRUE
CanRLock == mu.w = NoProc
LockIgnoresWriter == mu.r = {}
LockIgnoresReaders == mu.w = NoProc
CanLock == mu.w = NoProc /\ mu.r = {}
RLock(p) == [mu EXCEPT !.r = @ \cup {p}]
RUnlock(p) == [mu EXCEPT !.r = @ \ {p}]
Lock(p) == [mu EXCEPT !.w = p]
StaysLocked(p) == mu
Unlock(p) == [mu EXCEPT !.w = NoProc]

\* ------------------------------------------------------------ workers
Idle == "idle"
Done == "done"
NoReq == [op |-> "none"]

Goto(p, l) == pc' = [pc EXCEPT ![p] = l]
SetLocal(p, v) == local' = [local EXCEPT ![p] = v]
SetResp(p, r) == resp' = [resp EXCEPT ![p] = r]

\* The ids a client can name in a path: the UUIDs drawn so far.
KnownIds == {UUID(n) : n \in 1..(nextId - 1)}

\* The router hands a request to an idle worker.
CanAccept(p) == pc[p] = Idle /\ served < MaxRequests
Accept(p, r) ==
    /\ served' = served + 1
    /\ req' = [req EXCEPT ![p] = r]
    /\ lateGet' = IF r.op = "get" /\ r.id \in deleted
                  THEN lateGet \cup {p} ELSE lateGet

\* The handler returns r to the router.
Return(p, r) ==
    /\ pc' = [pc EXCEPT ![p] = Done]
    /\ resp' = [resp EXCEPT ![p] = r]

\* The router has written the response: the worker is free for the next request.
Finish(p) ==
    /\ pc[p] = Done
    /\ pc' = [pc EXCEPT ![p] = Idle]
    /\ req' = [req EXCEPT ![p] = NoReq]
    /\ local' = [local EXCEPT ![p] = ZeroBook]
    /\ resp' = [resp EXCEPT ![p] = NoResp]
    /\ lateGet' = lateGet \ {p}
    /\ UNCHANGED <<store, mu, nextId, served, deleted>>

\* ------------------------------------------------------------ getAllBooks
FirstPage == 1
FallbackLimit == 50
DefaultPage == Num(FirstPage)
DefaultLimit == Num(FallbackLimit)

\* if page < 1 { page = 1 }
ClampPage(page) == IF page < 1 THEN FirstPage ELSE page
\* if limit < 1 { limit = 50 }
FloorLimit(limit) == IF limit < 1 THEN 1 ELSE limit
ClampLimit(limit) == IF limit < 1 THEN FallbackLimit ELSE limit

getAllBooksEnter(p, Q) ==
    /\ CanAccept(p)
    /\ \E q \in Q :
           /\ Accept(p, [op |-> "list", page |-> q.page, limit |-> q.limit])
           /\ SetLocal(p, [page |-> ClampPage(Atoi(Query(q.page, DefaultPage))),
                           limit |-> ClampLimit(Atoi(Query(q.limit, DefaultLimit))),
                           keys |-> <<>>, books |-> <<>>])
           /\ SetResp(p, NoResp)
           /\ Goto(p, "l_rlock")
           /\ UNCHANGED <<store, mu, nextId, deleted>>

getAllBooksRLock(p) ==
    /\ pc[p] = "l_rlock"
    /\ CanRLock
    /\ mu' = RLock(p)
    /\ Goto(p, "l_range")
    /\ UNCHANGED <<store, req, local, resp, nextId, served, deleted, lateGet>>

Range(seq) == {seq[i] : i \in 1..Len(seq)}

\* for _, v := range store { books = append(books, v) }: one iteration, which
\* takes any key not yet visited (the order of a map's range is not fixed).
getAllBooksRange(p) ==
    /\ pc[p] = "l_range"
    /\ \E k \in DOMAIN store \ Range(local[p].keys) :
          SetLocal(p, [local[p] EXCEPT !.keys = Append(@, k),
                                       !.books = Append(@, store[k])])
    /\ UNCHANGED <<store, mu, pc, req, resp, nextId, served, deleted, lateGet>>

\* books[start:end]: out of range when start < 0 or end < start (end <= len
\* and len = cap here).
SliceInRange(books, start, end) == 0 <= start /\ start <= end /\ end <= Len(books)

\* start, end and the response, from the books collected
Paginate(books, page, limit) ==
    LET start0 == Wrap((page - 1) * limit)
        start == IF start0 > Len(books) THEN Len(books) ELSE start0
        end0 == Wrap(start + limit)
        end == IF end0 > Len(books) THEN Len(books) ELSE end0
    IN  IF SliceInRange(books, start, end)
        THEN Json(StatusOK, [data |-> SubSeq(books, start + 1, end), page |-> page,
                             limit |-> limit, total |-> Len(books)])
        ELSE Panic

\* the range is over: the slice, the response (or the panic), the deferred RUnlock
getAllBooksReturn(p) ==
    /\ pc[p] = "l_range"
    /\ DOMAIN store \ Range(local[p].keys) = {}
    /\ mu' = RUnlock(p)
    /\ Return(p, Paginate(local[p].books, local[p].page, local[p].limit))
    /\ UNCHANGED <<store, req, local, nextId, served, deleted, lateGet>>

\* ------------------------------------------------------------ getBookByID
getBookByIDEnter(p) ==
    /\ CanAccept(p)
    /\ \E id \in KnownIds :
           /\ Accept(p, [op |-> "get", id |-> id])
           /\ Goto(p, "g_rlock")
           /\ SetLocal(p, ZeroBook)
           /\ SetResp(p, NoResp)
           /\ UNCHANGED <<store, mu, nextId, deleted>>

getBookByIDRLock(p) ==
    /\ pc[p] = "g_rlock"
    /\ CanRLock
    /\ mu' = RLock(p)
    /\ Goto(p, "g_read")
    /\ UNCHANGED <<store, req, local, resp, nextId, served, deleted, lateGet>>

\* b, ok := store[id], and the response
LookupZeroValue(s, id) ==
    Json(StatusOK, IF id \in DOMAIN s THEN s[id] ELSE ZeroBook)
Lookup(s, id) ==
    IF id \in DOMAIN s THEN Json(StatusOK, s[id]) ELSE NotFound

getBookByIDRead(p) ==
    /\ pc[p] = "g_read"
    /\ SetResp(p, Lookup(store, req[p].id))
    /\ Goto(p, "g_ret")
    /\ UNCHANGED <<store, mu, req, local, nextId, served, deleted, lateGet>>

\* the deferred RUnlock, and the return
getBookByIDReturn(p) ==
    /\ pc[p] = "g_ret"
    /\ mu' = RUnlock(p)
    /\ Return(p, resp[p])
    /\ UNCHANGED <<store, req, local, nextId, served, deleted, lateGet>>

\* ------------------------------------------------------------ createBook
\* payload.ID = uuid.New().String(): the id in the body is overwritten.
KeepBodyId(body, n) == IF body.id = EmptyId THEN [body EXCEPT !.id = UUID(n)] ELSE body
AssignId(body, n) == [body EXCEPT !.id = UUID(n)]

createBookEnter(p, B) ==
    /\ CanAccept(p)
    /\ \E body \in B :
           /\ Accept(p, [op |-> "create", body |-> body])
           /\ UNCHANGED <<store, mu, deleted>>
           /\ IF BodyParserFails(body)
              THEN /\ Return(p, BadBody)
                   /\ SetLocal(p, ZeroBook)
                   /\ UNCHANGED nextId
              ELSE IF validateBookPayload(body) # ""
              THEN /\ Return(p, Err(StatusBadRequest, validateBookPayload(body)))
                   /\ SetLocal(p, body)
                   /\ UNCHANGED nextId
              ELSE /\ nextId' = nextId + 1
                   /\ SetLocal(p, AssignId(body, nextId))
                   /\ SetResp(p, NoResp)
                   /\ Goto(p, "c_lock")

createBookLock(p) ==
    /\ pc[p] = "c_lock"
    /\ CanLock
    /\ mu' = Lock(p)
    /\ Goto(p, "c_put")
    /\ UNCHANGED <<store, req, local, resp, nextId, served, deleted, lateGet>>

createBookPut(p) ==
    /\ pc[p] = "c_put"
    /\ store' = Put(store, local[p].id, local[p])
    /\ Goto(p, "c_unlock")
    /\ UNCHANGED <<mu, req, local, resp, nextId, served, deleted, lateGet>>

createBookUnlock(p) ==
    /\ pc[p] = "c_unlock"
    /\ mu' = Unlock(p)
    /\ Return(p, Json(StatusCreated, local[p]))
    /\ UNCHANGED <<store, req, local, nextId, served, deleted, lateGet>>

\* ------------------------------------------------------------ updateBook
updateBookEnter(p) ==
    /\ CanAccept(p)
    /\ \E id \in KnownIds :
           /\ Accept(p, [op |-> "update", id |-> id])
           /\ Goto(p, "u_rlock")
           /\ SetLocal(p, ZeroBook)
           /\ SetResp(p, NoResp)
           /\ UNCHANGED <<store, mu, nextId, deleted>>

updateBookRLock(p) ==
    /\ pc[p] = "u_rlock"
    /\ CanRLock
    /\ mu' = RLock(p)
    /\ Goto(p, "u_check")
    /\ UNCHANGED <<store, req, local, resp, nextId, served, deleted, lateGet>>

\* _, ok := store[id]
updateBookCheck(p) ==
    /\ pc[p] = "u_check"
    /\ Goto(p, IF req[p].id \in DOMAIN store THEN "u_found" ELSE "u_absent")
    /\ UNCHANGED <<store, mu, req, local, resp, nextId, served, deleted, lateGet>>

\* storeMu.RUnlock(); the 404 return, or the body is read and parsed
updateBookRUnlock(p, B) ==
    /\ pc[p] \in {"u_found", "u_absent"}
    /\ mu' = RUnlock(p)
    /\ IF pc[p] = "u_absent"
       THEN Return(p, NotFound) /\ UNCHANGED <<req, local>>
       ELSE \E body \in B :
               /\ req' = [req EXCEPT ![p] = [op |-> "update", id |-> req[p].id,
                                             body |-> body]]
               /\ IF BodyParserFails(body)
                  THEN Return(p, BadBody) /\ UNCHANGED local
                  ELSE Goto(p, "u_lock") /\ SetLocal(p, body) /\ UNCHANGED resp
    /\ UNCHANGED <<store, nextId, served, deleted, lateGet>>

updateBookLock(p) ==
    /\ pc[p] = "u_lock"
    /\ CanLock
    /\ mu' = Lock(p)
    /\ Goto(p, "u_merge")
    /\ UNCHANGED <<store, req, local, resp, nextId, served, deleted, lateGet>>

\* existing := store[id]: the zero Book when id is not a key
Load(s, id) == IF id \in DOMAIN s THEN s[id] ELSE ZeroBook

\* the three conditional field assignments
MergeAlways(existing, b) ==
    [existing EXCEPT !.title = b.title, !.author = b.author, !.year = b.year]
Merge(existing, b) ==
    [id |-> existing.id,
     title |-> IF b.title # "" THEN b.title ELSE existing.title,
     author |-> IF b.author # "" THEN b.author ELSE existing.author,
     year |-> IF b.year # 0 THEN b.year ELSE existing.year]

\* existing is loaded, merged and stored back
updateBookMerge(p) ==
    /\ pc[p] = "u_merge"
    /\ LET existing == Merge(Load(store, req[p].id), local[p])
       IN /\ store' = Put(store, req[p].id, existing)
          /\ SetLocal(p, existing)
    /\ Goto(p, "u_unlock")
    /\ UNCHANGED <<mu, req, resp, nextId, served, deleted, lateGet>>

updateBookUnlock(p) ==
    /\ pc[p] = "u_unlock"
    /\ mu' = Unlock(p)
    /\ Return(p, Json(StatusOK, local[p]))
    /\ UNCHANGED <<store, req, local, nextId, served, deleted, lateGet>>

\* ------------------------------------------------------------ replaceBook
\* payload.ID = id
KeepPayloadId(body, id) == body
SetPathId(body, id) == [body EXCEPT !.id = id]

replaceBookEnter(p, B) ==
    /\ CanAccept(p)
    /\ \E id \in KnownIds, body \in B :
           /\ Accept(p, [op |-> "replace", id |-> id, body |-> body])
           /\ UNCHANGED <<store, mu, nextId, deleted>>
           /\ IF BodyParserFails(body)
              THEN Return(p, BadBody) /\ SetLocal(p, ZeroBook)
              ELSE IF validateBookPayload(body) # ""
              THEN /\ Return(p, Err(StatusBadRequest, validateBookPayload(body)))
                   /\ SetLocal(p, body)
              ELSE /\ SetLocal(p, SetPathId(body, id))
                   /\ SetResp(p, NoResp)
                   /\ Goto(p, "r_lock")

replaceBookLock(p) ==
    /\ pc[p] = "r_lock"
    /\ CanLock
    /\ mu' = Lock(p)
    /\ Goto(p, "r_check")
    /\ UNCHANGED <<store, req, local, resp, nextId, served, deleted, lateGet>>

\* if _, exists := store[id]; !exists { ... }
replaceBookCheck(p) ==
    /\ pc[p] = "r_check"
    /\ Goto(p, IF req[p].id \in DOMAIN store THEN "r_put" ELSE "r_absent")
    /\ UNCHANGED <<store, mu, req, local, resp, nextId, served, deleted, lateGet>>

\* the check and the write of one locked section, as a function of the store
Overwrite(s, id, b) == IF id \in DOMAIN s THEN Put(s, id, b) ELSE s

\* store[id] = payload
replaceBookPut(p) ==
    /\ pc[p] = "r_put"
    /\ store' = Put(store, req[p].id, local[p])
    /\ Goto(p, "r_unlock")
    /\ UNCHANGED <<mu, req, local, resp, nextId, served, deleted, lateGet>>

\* storeMu.Unlock() and the return, on either path
replaceBookUnlock(p) ==
    /\ pc[p] \in {"r_unlock", "r_absent"}
    /\ mu' = Unlock(p)
    /\ Return(p, IF pc[p] = "r_absent" THEN NotFound ELSE Json(StatusOK, local[p]))
    /\ UNCHANGED <<store, req, local, nextId, served, deleted, lateGet>>

\* ------------------------------------------------------------ deleteBook
deleteBookEnter(p) ==
    /\ CanAccept(p)
    /\ \E id \in KnownIds :
           /\ Accept(p, [op |-> "delete", id |-> id])
           /\ Goto(p, "d_lock")
           /\ SetLocal(p, ZeroBook)
           /\ SetResp(p, NoResp)
           /\ UNCHANGED <<store, mu, nextId, deleted>>

deleteBookLock(p) ==
    /\ pc[p] = "d_lock"
    /\ CanLock
    /\ mu' = Lock(p)
    /\ Goto(p, "d_check")
    /\ UNCHANGED <<store, req, local, resp, nextId, served, deleted, lateGet>>

\* if _, exists := store[id]; !exists { return 404 }
deleteBookCheck(p) ==
    /\ pc[p] = "d_check"
    /\ IF req[p].id \in DOMAIN store
       THEN Goto(p, "d_remove") /\ UNCHANGED resp
       ELSE Goto(p, "d_ret") /\ SetResp(p, NotFound)
    /\ UNCHANGED <<store, mu, req, local, nextId, served, deleted, lateGet>>

\* delete(store, id)
Remove(s, id) == [k \in DOMAIN s \ {id} |-> s[k]]

\* the removal, and the 204 to return
deleteBookRemove(p) ==
    /\ pc[p] = "d_remove"
    /\ store' = Remove(store, req[p].id)
    /\ SetResp(p, [status |-> StatusNoContent])
    /\ Goto(p, "d_ret")
    /\ UNCHANGED <<mu, req, local, nextId, served, deleted, lateGet>>

\* the deferred Unlock, and the return
deleteBookReturn(p) ==
    /\ pc[p] = "d_ret"
    /\ mu' = Unlock(p)
    /\ Return(p, resp[p])
    /\ deleted' = IF resp[p].status = StatusNoContent
                  THEN deleted \cup {req[p].id} ELSE deleted
    /\ UNCHANGED <<store, req, local, nextId, served, lateGet>>

\* ------------------------------------------------------------ the service
\* main: the store is seeded, then the server listens.
Init ==
    /\ store = seedData
    /\ mu = [w |-> NoProc, r |-> {}]
    /\ pc = [p \in Procs |-> Idle]
    /\ req = [p \in Procs |-> NoReq]
    /\ local = [p \in Procs |-> ZeroBook]
    /\ resp = [p \in Procs |-> NoResp]
    /\ nextId = Cardinality(DOMAIN seedData) + 1
    /\ served = 0
    /\ deleted = {}
    /\ lateGet = {}

\* One step of worker p, its bodies drawn from B and its queries from Q.
Step(p, B, Q) ==
    \/ getAllBooksEnter(p, Q) \/ getAllBooksRLock(p) \/ getAllBooksRange(p)
    \/ getAllBooksReturn(p)
    \/ getBookByIDEnter(p) \/ getBookByIDRLock(p) \/ getBookByIDRead(p)
    \/ getBookByIDReturn(p)
    \/ createBookEnter(p, B) \/ createBookLock(p) \/ createBookPut(p)
    \/ createBookUnlock(p)
    \/ updateBookEnter(p) \/ updateBookRLock(p) \/ updateBookCheck(p)
    \/ updateBookRUnlock(p, B) \/ updateBookLock(p) \/ updateBookMerge(p)
    \/ updateBookUnlock(p)
    \/ replaceBookEnter(p, B) \/ replaceBookLock(p) \/ replaceBookCheck(p)
    \/ replaceBookPut(p) \/ replaceBookUnlock(p)
    \/ deleteBookEnter(p) \/ deleteBookLock(p) \/ deleteBookCheck(p)
    \/ deleteBookRemove(p) \/ deleteBookReturn(p)
    \/ Finish(p)

\* The service under concurrent requests.
Next == \E p \in Procs : Step(p, FewBodies, FewQueries)
Spec == Init /\ [][Next]_vars

\* The service under a fair scheduler: a handler that can take its next step
\* takes it in the end (every runnable goroutine is run, and a goroutine waiting
\* for the lock is woken when it is released). Whether a request arrives is up
\* to the clients.
Serve(p) == pc[p] # Idle /\ Step(p, FewBodies, FewQueries)
SpecFair == Spec /\ \A p \in Procs : WF_vars(Serve(p))

\* The service under concurrent requests none of which is a Create or a
\* PartialUpdate.
NextDelete ==
    \E p \in Procs :
        \/ getBookByIDEnter(p) \/ getBookByIDRLock(p) \/ getBookByIDRead(p)
        \/ getBookByIDReturn(p)
        \/ replaceBookEnter(p, FewBodies) \/ replaceBookLock(p) \/ replaceBookCheck(p)
        \/ replaceBookPut(p) \/ replaceBookUnlock(p)
        \/ deleteBookEnter(p) \/ deleteBookLock(p) \/ deleteBookCheck(p)
        \/ deleteBookRemove(p) \/ deleteBookReturn(p)
        \/ Finish(p)
SpecDelete == Init /\ [][NextDelete]_vars

\* The service with one request at a time, over every body.
NextSeq == Step(1, Bodies, FewQueries)
SpecSeq == Init /\ [][NextSeq]_vars

\* getAllBooks alone: one request, over every query and stores of up to MaxBooks
\* books.
ListBooks == <<Seed1, Seed2, Book(UUID(3), "X", "Y", 9), Book(UUID(4), "X", "Y", 0)>>
RECURSIVE StoreOf(_)
StoreOf(n) == IF n = 0 THEN <<>> ELSE Put(StoreOf(n - 1), UUID(n), [ListBooks[((n - 1) % Len(ListBooks)) + 1] EXCEPT !.id = UUID(n)])

InitList ==
    /\ \E n \in 0..MaxBooks : store = StoreOf(n) /\ nextId = n + 1
    /\ mu = [w |-> NoProc, r |-> {}]
    /\ pc = [p \in Procs |-> Idle]
    /\ req = [p \in Procs |-> NoReq]
    /\ local = [p \in Procs |-> ZeroBook]
    /\ resp = [p \in Procs |-> NoResp]
    /\ served = MaxRequests - 1
    /\ deleted = {}
    /\ lateGet = {}

NextList ==
    \/ getAllBooksEnter(1, AllQueries) \/ getAllBooksRLock(1) \/ getAllBooksRange(1)
    \/ getAllBooksReturn(1) \/ Finish(1)
SpecList == InitList /\ [][NextList]_vars

\* List requests for each page of one or two books, served concurrently over a
\* store that no request changes.
PageQueries == [page : {Num(k) : k \in 1..MaxBooks}, limit : {Num(1), Num(2)}]
InitPages ==
    /\ \E n \in 0..MaxBooks : store = StoreOf(n) /\ nextId = n + 1
    /\ mu = [w |-> NoProc, r |-> {}]
    /\ pc = [p \in Procs |-> Idle]
    /\ req = [p \in Procs |-> NoReq]
    /\ local = [p \in Procs |-> ZeroBook]
    /\ resp = [p \in Procs |-> NoResp]
    /\ served = MaxRequests - 2
    /\ deleted = {}
    /\ lateGet = {}

NextPages ==
    \E p \in Procs :
        \/ getAllBooksEnter(p, PageQueries) \/ getAllBooksRLock(p)
        \/ getAllBooksRange(p) \/ getAllBooksReturn(p) \/ Finish(p)
SpecPages == InitPages /\ [][NextPages]_vars

\* ============================================================ claims
Min(a, b) == IF a < b THEN a ELSE b
Max(a, b) == IF a > b THEN a ELSE b
IsDone(p, op) == pc[p] = Done /\ req[p].op = op

\* C1: in every reachable state every Book of the store has a non-empty id, a
\* non-empty title and a non-empty author.
C1_StoredBooksAreComplete ==
    \A k \in DOMAIN store :
        store[k].id # EmptyId /\ store[k].title # "" /\ store[k].author # ""

\* C2: in every reachable state the Book stored under key k has id k.
C2_KeyIsId == \A k \in DOMAIN store : store[k].id = k

\* C3: a GetByID of id that is accepted after a Delete of id has returned 204
\* returns 404 "book not found".
C3_GetAfterDeleteIsNotFound ==
    \A p \in Procs : (IsDone(p, "get") /\ p \in lateGet) => resp[p] = NotFound

\* C4: PartialUpdate(id, P) on an existing Book E stores at id, and returns with
\* 200, E with each of title, author and year replaced by P's when P's is
\* non-empty (non-zero); the id stays E's, no payload is rejected as invalid and
\* no other record changes.
C4_PartialUpdateMerges ==
    [][\A p \in Procs :
        /\ (pc[p] = "u_merge" /\ pc'[p] # "u_merge" /\ req[p].id \in DOMAIN store) =>
              LET E == store[req[p].id]
                  P == req[p].body
                  M == Book(E.id,
                            IF P.title # "" THEN P.title ELSE E.title,
                            IF P.author # "" THEN P.author ELSE E.author,
                            IF P.year # 0 THEN P.year ELSE E.year)
              IN  /\ store' = [k \in DOMAIN store |-> IF k = req[p].id THEN M ELSE store[k]]
                  /\ local'[p] = M
                  /\ pc'[p] = "u_unlock"
        /\ (pc[p] = "u_unlock" /\ pc'[p] # "u_unlock") =>
              /\ pc'[p] = Done
              /\ resp'[p] = [status |-> 200, body |-> local[p]]
              /\ store' = store]_vars

\* C4's case: the title alone was sent for the first seed, whose author and
\* year are kept.
C4_Witness ==
    /\ IsDone(1, "update")
    /\ req[1].body = Book(EmptyId, "X", "", 0)
    /\ resp[1] = [status |-> 200, body |-> Book(Seed1.id, "X", Seed1.author, Seed1.year)]
    /\ store[Seed1.id] = resp[1].body

\* C5: for page >= 1 and limit >= 1, List returns 200 with total the number of
\* stored Books and data the positions [(page-1)*limit, (page-1)*limit+limit),
\* clamped to [0, total], of one enumeration of the store; so data has
\* min(limit, max(0, total - (page-1)*limit)) elements and no duplicates.
C5_PageOfOneEnumeration ==
    \A p \in Procs :
        (/\ IsDone(p, "list")
         /\ IsNum(req[p].page) /\ req[p].page.num \in 1..MaxInt
         /\ IsNum(req[p].limit) /\ req[p].limit.num \in 1..MaxInt) =>
            LET page == req[p].page.num
                limit == req[p].limit.num
                total == Cardinality(DOMAIN store)
                lo == Min((page - 1) * limit, total)
                hi == Min(lo + limit, total)
                all == local[p].books
            IN  /\ resp[p].status = 200
                /\ resp[p].body.total = total
                /\ Len(all) = total
                /\ \A k \in DOMAIN store : \E i \in 1..total : all[i] = store[k]
                /\ resp[p].body.data = SubSeq(all, lo + 1, hi)
                /\ Len(resp[p].body.data) = Min(limit, Max(0, total - (page - 1) * limit))
                /\ Len(resp[p].body.data) <= limit
                /\ \A i, j \in 1..Len(resp[p].body.data) :
                      resp[p].body.data[i] = resp[p].body.data[j] => i = j

\* C6: List never fails: for every int value of page and limit and every store
\* it returns 200, never a panic or an error.
C6_ListNeverFails ==
    \A p \in Procs : IsDone(p, "list") => resp[p].status = 200

\* The int a query parameter stands for, for the parameters C7 speaks of: the
\* default when absent, the numeral's value when it is an int.
C7Covers(q) == q = Absent \/ (IsNum(q) /\ q.num \in MinInt..MaxInt)
C7Value(q, default) == IF q = Absent THEN default ELSE q.num

\* C7 as stated: a page below 1 is treated as 1 and a limit below 1 as 1, the
\* response reports the clamped values; absent page is 1, absent limit 50.
C7_LimitFloorIsOne ==
    \A p \in Procs :
        (IsDone(p, "list") /\ resp[p].status = 200) =>
            /\ C7Covers(req[p].page) =>
                  resp[p].body.page = Max(1, C7Value(req[p].page, 1))
            /\ C7Covers(req[p].limit) =>
                  resp[p].body.limit = Max(1, C7Value(req[p].limit, 50))

\* C7 amended: a page below 1 is treated as 1 and a limit below 1 as the
\* default 50; every 200 response reports the page and limit so clamped, which
\* are the ones the slice is taken with; absent page is 1, absent limit 50.
C7_LimitFallsBackToDefault ==
    \A p \in Procs :
        (req[p].op = "list" /\ pc[p] # Idle) =>
            /\ C7Covers(req[p].page) =>
                  local[p].page = Max(1, C7Value(req[p].page, 1))
            /\ C7Covers(req[p].limit) =>
                  local[p].limit = (IF C7Value(req[p].limit, 50) < 1 THEN 50
                                    ELSE C7Value(req[p].limit, 50))
            /\ (pc[p] = Done /\ resp[p].status = 200) =>
                  /\ resp[p].body.page = local[p].page
                  /\ resp[p].body.limit = local[p].limit

\* C7's case: limit=0 was sent, and the response reports limit 50.
C7_Witness ==
    /\ IsDone(1, "list")
    /\ req[1].limit = Num(0) /\ req[1].page = Num(-1)
    /\ resp[1].status = 200
    /\ resp[1].body.limit = 50 /\ resp[1].body.page = 1
    /\ Len(resp[1].body.data) = 3

\* C8: Replace(id, B) on an existing id stores B with its id set to the path id,
\* nothing of the previous record kept and no other record changed, and returns
\* it with 200; applied to the state it has produced, it leaves the store as it
\* is and returns the same.
C8_ReplaceIdempotent ==
    [][\A p \in Procs :
        LET id == req[p].id
            R == Book(id, req[p].body.title, req[p].body.author, req[p].body.year)
        IN
        /\ (pc[p] = "r_put" /\ pc'[p] # "r_put" /\ id \in DOMAIN store) =>
              /\ store' = [k \in DOMAIN store |-> IF k = id THEN R ELSE store[k]]
              /\ store[id] = R => store' = store
              /\ Overwrite(store', id, SetPathId(req[p].body, id)) = store'
              /\ pc'[p] = "r_unlock"
        /\ (pc[p] = "r_unlock" /\ pc'[p] # "r_unlock") =>
              /\ pc'[p] = Done
              /\ resp'[p] = [status |-> 200, body |-> R]
              /\ store' = store]_vars

\* C8's case: a Replace is about to store B over the record a Replace of B
\* leaves.
C8_Witness ==
    /\ pc[1] = "r_put"
    /\ served >= 2
    /\ req[1].id \in DOMAIN store
    /\ req[1].body.id # req[1].id
    /\ store[req[1].id] = Book(req[1].id, req[1].body.title, req[1].body.author,
                               req[1].body.year)

\* C9: Create(B) with a valid B returns 201 with a Book carrying a newly
\* assigned id, whatever id the body carried, and a GetByID of that id then
\* returns 200 with B's title, author and year under that id.
C9_CreateThenGet ==
    \A p \in Procs :
        (IsDone(p, "create") /\ req[p].body # Malformed
            /\ req[p].body.title # "" /\ req[p].body.author # "") =>
            LET B == req[p].body
                k == resp[p].body.id
            IN  /\ resp[p].status = 201
                /\ k # EmptyId /\ k # B.id
                /\ resp[p].body = Book(k, B.title, B.author, B.year)
                /\ Lookup(store, k) = [status |-> 200, body |-> Book(k, B.title, B.author, B.year)]

\* C9's case: a body carrying the id of the first seed was created.
C9_Witness ==
    /\ IsDone(1, "create")
    /\ req[1].body = Book(Seed1.id, "X", "Y", 0)
    /\ resp[1].status = 201
    /\ Lookup(store, UUID(3)) = [status |-> 200, body |-> Book(UUID(3), "X", "Y", 0)]
    /\ store[Seed1.id] = Seed1

\* The workers that hold an id assigned by createBook.
Creating(p) == req[p].op = "create" /\ pc[p] \in {"c_lock", "c_put", "c_unlock"}

\* C10: the ids of Create are pairwise distinct and distinct from every id
\* drawn before and every key of the store; a Create adds one key to the store
\* and changes no record of it.
C10_CreateIdsAreFresh ==
    [][\A p \in Procs :
        /\ (pc[p] = Idle /\ pc'[p] = "c_lock") =>
              /\ local'[p].id \notin KnownIds
              /\ local'[p].id \notin DOMAIN store
              /\ \A q \in Procs \ {p} : Creating(q) => local[q].id # local'[p].id
        /\ (pc[p] = "c_put" /\ pc'[p] # "c_put") =>
              /\ local[p].id \notin DOMAIN store
              /\ DOMAIN store' = DOMAIN store \cup {local[p].id}
              /\ Cardinality(DOMAIN store') = Cardinality(DOMAIN store) + 1
              /\ \A k \in DOMAIN store : store'[k] = store[k]
              /\ store'[local[p].id] = local[p]]_vars

\* C10's case: two Creates are in flight, one of them has put its Book.
C10_Witness ==
    /\ Creating(1) /\ Creating(2)
    /\ pc[1] = "c_unlock" /\ pc[2] = "c_lock"
    /\ local[1].id \in DOMAIN store
    /\ req[1].body.id = Seed1.id

\* C11: Create and Replace with a payload whose title or author is empty return
\* 400, "title is required" when the title is empty and "author is required"
\* otherwise, and leave the store as it is; Replace does so whether or not its
\* id is a key of the store.
C11_InvalidPayloadIsRejected ==
    [][\A p \in Procs :
        (/\ pc[p] = Idle /\ pc'[p] # Idle
         /\ req'[p].op \in {"create", "replace"}
         /\ req'[p].body # Malformed
         /\ (req'[p].body.title = "" \/ req'[p].body.author = "")) =>
            /\ pc'[p] = Done
            /\ resp'[p] = [status |-> 400,
                           error |-> IF req'[p].body.title = "" THEN "title is required"
                                     ELSE "author is required"]
            /\ store' = store
            /\ mu' = mu]_vars

\* C11's case: a Replace of an id that is no key, with a title and no author,
\* was answered 400 "author is required".
C11_Witness ==
    /\ IsDone(1, "replace")
    /\ req[1].id \notin DOMAIN store
    /\ req[1].body = Book(EmptyId, "X", "", 9)
    /\ resp[1] = [status |-> 400, error |-> "author is required"]

\* C12: The set of ids in the store grows only through Create: no step of a
\* PartialUpdate, Replace or Delete request adds a key that was absent
\* immediately before the step, under any interleaving.
C12_OnlyCreateAddsKeys ==
    [][\A p \in Procs :
        (/\ pc'[p] # pc[p]
         /\ pc[p] # Idle
         /\ req[p].op \in {"update", "replace", "delete"}) =>
            DOMAIN store' \subseteq DOMAIN store]_vars

\* the existence check of worker p has just passed, its mutation is still to come
JustChecked(p) == pc[p] \in {"u_found", "r_put", "d_remove"}

\* C13 as stated: for each of PartialUpdate, Replace and Delete the existence
\* check and the mutation are not one atomic step: the handler whose check has
\* passed gives up the lock before it mutates, which is what lets a concurrent
\* Delete of the same id take effect in between.
C13_CheckThenMutateIsNeverAtomic ==
    [][\A p \in Procs :
        (JustChecked(p) /\ pc'[p] # pc[p]) =>
            /\ store' = store
            /\ mu'.w # p
            /\ p \notin mu'.r]_vars

\* C13, amended: only PartialUpdate gives up the lock between its existence
\* check and its mutation. Replace and Delete check and mutate inside one
\* exclusive critical section: from the passed check to the mutation they hold
\* the lock exclusively, the id stays a key of the store, no other request
\* changes the store, and their next step is the mutation itself.
C13_OnlyPartialUpdateIsNotAtomic ==
    [][\A p \in Procs :
        /\ (pc[p] = "u_found" /\ pc'[p] # pc[p]) =>
               /\ store' = store
               /\ mu'.w # p
               /\ p \notin mu'.r
        /\ pc[p] \in {"r_put", "d_remove"} =>
               /\ mu.w = p
               /\ mu.r = {}
               /\ req[p].id \in DOMAIN store
               /\ pc'[p] = pc[p] => store' = store
               /\ pc'[p] # pc[p] =>
                      /\ mu'.w = p
                      /\ store' = IF pc[p] = "r_put"
                                  THEN Put(store, req[p].id, SetPathId(req[p].body, req[p].id))
                                  ELSE Remove(store, req[p].id)]_vars

\* a Delete of the id has returned 204 between the passed check of a
\* PartialUpdate and its merge, which is about to be applied
C13_Witness ==
    /\ pc[1] = "u_merge"
    /\ req[1].id \notin DOMAIN store
    /\ req[1].id \in deleted
    /\ IsDone(2, "delete")
    /\ req[2].id = req[1].id
    /\ resp[2].status = StatusNoContent

\* worker p takes a step of the request it is serving, or accepts one
Steps(p) == pc'[p] # pc[p] \/ local'[p] # local[p]

\* C14: GetByID, PartialUpdate, Replace with a valid payload and Delete, on an
\* id that is absent from the store at their existence check, return 404 "book
\* not found" and leave the store as it is; no step of a GetByID or a List
\* changes the store.
C14_AbsentIdIsNotFound ==
    [][\A p \in Procs :
        LET absent == req[p].id \notin DOMAIN store
            notFound == [status |-> 404, error |-> "book not found"]
        IN  /\ (pc[p] = "g_read" /\ absent /\ Steps(p)) =>
                   resp'[p] = notFound /\ pc'[p] = "g_ret"
            /\ (pc[p] = "g_ret" /\ Steps(p)) =>
                   resp'[p] = resp[p] /\ pc'[p] = Done
            /\ (pc[p] = "u_check" /\ absent /\ Steps(p)) =>
                   pc'[p] = "u_absent" /\ store' = store
            /\ (pc[p] = "u_absent" /\ Steps(p)) =>
                   resp'[p] = notFound /\ pc'[p] = Done /\ store' = store
            /\ (pc[p] = "r_check" /\ absent /\ Steps(p)) =>
                   pc'[p] = "r_absent" /\ store' = store
            /\ (pc[p] = "r_absent" /\ Steps(p)) =>
                   resp'[p] = notFound /\ pc'[p] = Done /\ store' = store
            /\ (pc[p] = "d_check" /\ absent /\ Steps(p)) =>
                   resp'[p] = notFound /\ pc'[p] = "d_ret" /\ store' = store
            /\ (pc[p] = "d_ret" /\ Steps(p)) =>
                   resp'[p] = resp[p] /\ pc'[p] = Done /\ store' = store
            /\ (Steps(p) /\ pc'[p] # Idle /\ req'[p].op \in {"get", "list"}) =>
                   store' = store]_vars

\* a Replace with a valid payload has answered 404 for an id that is no key
C14_Witness ==
    /\ IsDone(2, "replace")
    /\ req[2].body = Book(UUID(1), "X", "Y", 9)
    /\ req[2].id \notin DOMAIN store
    /\ resp[2] = NotFound
    /\ Cardinality(DOMAIN store) = 1

\* C15: among concurrent Delete requests for one id that is present when they
\* start, with no Create or PartialUpdate writing that id, exactly one returns
\* 204 and every other one returns 404; the record is removed exactly once. A
\* Delete finds the id present exactly when no Delete of it has returned 204,
\* removes it then, and returns 204 for a removal and 404 otherwise.
C15_ExactlyOneDeleteSucceeds ==
    [][\A p \in Procs :
        /\ (pc[p] = "d_check" /\ Steps(p)) =>
               /\ req[p].id \in DOMAIN store <=> req[p].id \notin deleted
               /\ \A q \in Procs \ {p} :
                      ~(pc[q] = "d_ret" /\ req[q].id = req[p].id)
        /\ (pc[p] = "d_remove" /\ Steps(p)) =>
               /\ req[p].id \in DOMAIN store
               /\ req[p].id \notin deleted
               /\ store' = Remove(store, req[p].id)
               /\ resp'[p] = [status |-> 204]
        /\ (pc[p] = "d_ret" /\ Steps(p)) =>
               /\ pc'[p] = Done
               /\ resp'[p] = resp[p]
               /\ req[p].id \notin DOMAIN store
               /\ resp[p] = IF req[p].id \in deleted
                            THEN [status |-> 404, error |-> "book not found"]
                            ELSE [status |-> 204]]_vars

\* two Deletes of one id are in flight together; one has returned 204, the other
\* has found the id gone and is about to return 404
C15_Witness ==
    /\ IsDone(1, "delete")
    /\ resp[1] = [status |-> 204]
    /\ pc[2] = "d_ret"
    /\ req[2].id = req[1].id
    /\ resp[2] = NotFound
    /\ served = 2

\* C16: a List response reflects one single state of the store even with
\* concurrent writers. From the reading of its first Book to its return the
\* List holds the lock shared, no writer holds it and no step changes the
\* store; each Book it has read is the Book stored under the key it was read
\* from; at the return, total is the number of stored Books and every Book of
\* data is stored with the returned field values.
C16_ListReadsOneStoreState ==
    [][\A p \in Procs :
        pc[p] = "l_range" =>
            /\ p \in mu.r
            /\ mu.w = NoProc
            /\ store' = store
            /\ \A i \in 1..Len(local[p].keys) :
                   /\ local[p].keys[i] \in DOMAIN store
                   /\ store[local[p].keys[i]] = local[p].books[i]
            /\ (pc'[p] = Done /\ resp'[p].status = 200) =>
                   /\ resp'[p].body.total = Cardinality(DOMAIN store)
                   /\ \A i \in 1..Len(resp'[p].body.data) :
                          \E k \in DOMAIN store : store[k] = resp'[p].body.data[i]]_vars

\* a List has returned a Book while a Delete was waiting for the lock
C16_Witness ==
    /\ IsDone(1, "list")
    /\ resp[1].status = 200
    /\ Len(resp[1].body.data) = 1
    /\ resp[1].body.total = 2
    /\ pc[2] = "d_lock"

\* the Books of a List response
DataOf(p) == Range(resp[p].body.data)

\* C17: on a store that does not change, separate List calls with the same
\* limit return the blocks of one ordering: two calls for the same page return
\* the same data, two calls for different pages return disjoint data, and when
\* the store fills two pages the data of page 1 and page 2 together are the
\* whole store.
C17_PagesPartitionTheStore ==
    \A p, q \in Procs :
        (/\ p # q
         /\ IsDone(p, "list") /\ resp[p].status = 200
         /\ IsDone(q, "list") /\ resp[q].status = 200
         /\ resp[p].body.limit = resp[q].body.limit) =>
            /\ resp[p].body.page = resp[q].body.page =>
                   resp[p].body.data = resp[q].body.data
            /\ resp[p].body.page # resp[q].body.page =>
                   DataOf(p) \cap DataOf(q) = {}
            /\ (/\ {resp[p].body.page, resp[q].body.page} = {1, 2}
                /\ resp[p].body.limit < Cardinality(DOMAIN store)
                /\ Cardinality(DOMAIN store) <= 2 * resp[p].body.limit) =>
                   DataOf(p) \cup DataOf(q) = {store[k] : k \in DOMAIN store}

\* the positions whose next step reads the map only, and those whose next step
\* is part of a writing section (its check, load or write)
ReadPcs == {"l_range", "g_read", "u_check"}
WritePcs == {"c_put", "u_merge", "r_check", "r_put", "d_check", "d_remove"}

\* C18: every access to the store map happens under the lock in the right
\* mode. A request about to read the map holds the lock shared and no writer
\* holds it; a request in a writing section holds it exclusively, with no reader
\* and no other request at a read or a write; and the store changes only by the
\* write of the request that holds the lock exclusively.
C18_MapAccessUnderLock ==
    [][/\ \A p \in Procs :
            /\ pc[p] \in ReadPcs => (p \in mu.r /\ mu.w = NoProc)
            /\ pc[p] \in WritePcs =>
                   /\ mu.w = p
                   /\ mu.r = {}
                   /\ \A q \in Procs \ {p} : pc[q] \notin ReadPcs \cup WritePcs
       /\ store' # store =>
              \E p \in Procs :
                  /\ pc[p] \in {"c_put", "u_merge", "r_put", "d_remove"}
                  /\ pc'[p] # pc[p]
                  /\ mu.w = p
                  /\ mu.r = {}]_vars

\* a PartialUpdate is about to write under the exclusive lock while a List
\* waits for the shared one
C18_Witness ==
    /\ pc[1] = "u_merge"
    /\ mu = [w |-> 1, r |-> {}]
    /\ pc[2] = "l_rlock"

\* worker p holds the lock, in either mode
Holds(p) == mu.w = p \/ p \in mu.r

\* C19: every handler releases the lock on every return path and never
\* acquires it while holding it: a worker that is idle, waits for the lock or
\* has returned holds no lock. No deadlock is reachable: while a request is in
\* service some handler can take a step. Under fair scheduling every request
\* that has been accepted returns in the end.
C19_EveryRequestCompletes ==
    /\ [](\A p \in Procs :
             pc[p] \in {Idle, Done, "l_rlock", "g_rlock", "u_rlock", "u_lock",
                        "c_lock", "r_lock", "d_lock"} => ~Holds(p))
    /\ []((\E p \in Procs : pc[p] \notin {Idle, Done}) =>
             (\E p \in Procs : ENABLED Serve(p)))
    /\ \A p \in Procs : (pc[p] \notin {Idle, Done}) ~> (pc[p] = Done)

\* a Replace and a Delete have both returned 404 and the lock is free again
C19_Witness ==
    /\ IsDone(1, "replace")
    /\ resp[1] = NotFound
    /\ IsDone(2, "delete")
    /\ resp[2] = NotFound
    /\ mu = [w |-> NoProc, r |-> {}]
====
